---- MODULE Spec2Model ----
(***************************************************************************)
(* Cloudinary upload client (src/src/lib.rs): lazily loaded credentials,   *)
(* request signing, endpoint construction and the streaming upload.        *)
(*                                                                         *)
(* Strings are sequences of bytes (ASCII codes), as `as_bytes()` sees      *)
(* them; a 32-bit word of the digest is a pair <<high 16 bits, low 16      *)
(* bits>> because TLC integers are 32-bit signed.                          *)
(***************************************************************************)
EXTENDS Integers, Sequences, FiniteSets, TLC

(***************************************************************************)
(* ring::digest SHA256 (lib.rs:53-55), FIPS 180-4.                         *)
(***************************************************************************)
W16 == 65536

\* bitwise XOR and AND of two 4-bit values, indexed [a + 1][b + 1]
XorNib ==
  <<<<0, 1, 2, 3, 4, 5, 6, 7, 8, 9, 10, 11, 12, 13, 14, 15>>,
    <<1, 0, 3, 2, 5, 4, 7, 6, 9, 8, 11, 10, 13, 12, 15, 14>>,
    <<2, 3, 0, 1, 6, 7, 4, 5, 10, 11, 8, 9, 14, 15, 12, 13>>,
    <<3, 2, 1, 0, 7, 6, 5, 4, 11, 10, 9, 8, 15, 14, 13, 12>>,
    <<4, 5, 6, 7, 0, 1, 2, 3, 12, 13, 14, 15, 8, 9, 10, 11>>,
    <<5, 4, 7, 6, 1, 0, 3, 2, 13, 12, 15, 14, 9, 8, 11, 10>>,
    <<6, 7, 4, 5, 2, 3, 0, 1, 14, 15, 12, 13, 10, 11, 8, 9>>,
    <<7, 6, 5, 4, 3, 2, 1, 0, 15, 14, 13, 12, 11, 10, 9, 8>>,
    <<8, 9, 10, 11, 12, 13, 14, 15, 0, 1, 2, 3, 4, 5, 6, 7>>,
    <<9, 8, 11, 10, 13, 12, 15, 14, 1, 0, 3, 2, 5, 4, 7, 6>>,
    <<10, 11, 8, 9, 14, 15, 12, 13, 2, 3, 0, 1, 6, 7, 4, 5>>,
    <<11, 10, 9, 8, 15, 14, 13, 12, 3, 2, 1, 0, 7, 6, 5, 4>>,
    <<12, 13, 14, 15, 8, 9, 10, 11, 4, 5, 6, 7, 0, 1, 2, 3>>,
    <<13, 12, 15, 14, 9, 8, 11, 10, 5, 4, 7, 6, 1, 0, 3, 2>>,
    <<14, 15, 12, 13, 10, 11, 8, 9, 6, 7, 4, 5, 2, 3, 0, 1>>,
    <<15, 14, 13, 12, 11, 10, 9, 8, 7, 6, 5, 4, 3, 2, 1, 0>>>>

AndNib ==
  <<<<0, 0, 0, 0, 0, 0, 0, 0, 0, 0, 0, 0, 0, 0, 0, 0>>,
    <<0, 1, 0, 1, 0, 1, 0, 1, 0, 1, 0, 1, 0, 1, 0, 1>>,
    <<0, 0, 2, 2, 0, 0, 2, 2, 0, 0, 2, 2, 0, 0, 2, 2>>,
    <<0, 1, 2, 3, 0, 1, 2, 3, 0, 1, 2, 3, 0, 1, 2, 3>>,
    <<0, 0, 0, 0, 4, 4, 4, 4, 0, 0, 0, 0, 4, 4, 4, 4>>,
    <<0, 1, 0, 1, 4, 5, 4, 5, 0, 1, 0, 1, 4, 5, 4, 5>>,
    <<0, 0, 2, 2, 4, 4, 6, 6, 0, 0, 2, 2, 4, 4, 6, 6>>,
    <<0, 1, 2, 3, 4, 5, 6, 7, 0, 1, 2, 3, 4, 5, 6, 7>>,
    <<0, 0, 0, 0, 0, 0, 0, 0, 8, 8, 8, 8, 8, 8, 8, 8>>,
    <<0, 1, 0, 1, 0, 1, 0, 1, 8, 9, 8, 9, 8, 9, 8, 9>>,
    <<0, 0, 2, 2, 0, 0, 2, 2, 8, 8, 10, 10, 8, 8, 10, 10>>,
    <<0, 1, 2, 3, 0, 1, 2, 3, 8, 9, 10, 11, 8, 9, 10, 11>>,
    <<0, 0, 0, 0, 4, 4, 4, 4, 8, 8, 8, 8, 12, 12, 12, 12>>,
    <<0, 1, 0, 1, 4, 5, 4, 5, 8, 9, 8, 9, 12, 13, 12, 13>>,
    <<0, 0, 2, 2, 4, 4, 6, 6, 8, 8, 10, 10, 12, 12, 14, 14>>,
    <<0, 1, 2, 3, 4, 5, 6, 7, 8, 9, 10, 11, 12, 13, 14, 15>>>>

\* x XOR y XOR z, Ch(x, y, z) = (x AND y) XOR (NOT x AND z) and
\* Maj(x, y, z) = (x AND y) XOR (x AND z) XOR (y AND z) on 4-bit values
Xor3Nib(a, b, c) == XorNib[XorNib[a + 1][b + 1] + 1][c + 1]
ChNib(e, f, g) == XorNib[AndNib[e + 1][f + 1] + 1][AndNib[16 - e][g + 1] + 1]
MajNib(a, b, c) ==
  XorNib[XorNib[AndNib[a + 1][b + 1] + 1][AndNib[a + 1][c + 1] + 1] + 1][AndNib[b + 1][c + 1] + 1]

\* the same on 16-bit halves, nibble by nibble, and on words
Xor3Half(x, y, z) ==
    Xor3Nib(x % 16, y % 16, z % 16)
  + Xor3Nib((x \div 16) % 16, (y \div 16) % 16, (z \div 16) % 16) * 16
  + Xor3Nib((x \div 256) % 16, (y \div 256) % 16, (z \div 256) % 16) * 256
  + Xor3Nib(x \div 4096, y \div 4096, z \div 4096) * 4096
ChHalf(x, y, z) ==
    ChNib(x % 16, y % 16, z % 16)
  + ChNib((x \div 16) % 16, (y \div 16) % 16, (z \div 16) % 16) * 16
  + ChNib((x \div 256) % 16, (y \div 256) % 16, (z \div 256) % 16) * 256
  + ChNib(x \div 4096, y \div 4096, z \div 4096) * 4096
MajHalf(x, y, z) ==
    MajNib(x % 16, y % 16, z % 16)
  + MajNib((x \div 16) % 16, (y \div 16) % 16, (z \div 16) % 16) * 16
  + MajNib((x \div 256) % 16, (y \div 256) % 16, (z \div 256) % 16) * 256
  + MajNib(x \div 4096, y \div 4096, z \div 4096) * 4096
Xor3(x, y, z) == <<Xor3Half(x[1], y[1], z[1]), Xor3Half(x[2], y[2], z[2])>>

\* addition modulo 2^32
Add(x, y) ==
  LET lo == x[2] + y[2]
  IN  <<(x[1] + y[1] + (lo \div W16)) % W16, lo % W16>>

\* rotate the word <<hi, lo>> right by n < 16 bits, p = 2^n, q = 2^(16-n);
\* a rotation by 16 + n is the same with the halves swapped
RotrLow(hi, lo, p, q) == <<(hi \div p) + (lo % p) * q, (lo \div p) + (hi % p) * q>>
\* shift right by n < 16 bits, p = 2^n, q = 2^(16-n)
Shr(x, p, q) == <<x[1] \div p, (x[2] \div p) + (x[1] % p) * q>>

\* ROTR 2, 13, 22
BigSigma0(x) ==
  Xor3(RotrLow(x[1], x[2], 4, 16384), RotrLow(x[1], x[2], 8192, 8),
       RotrLow(x[2], x[1], 64, 1024))
\* ROTR 6, 11, 25
BigSigma1(x) ==
  Xor3(RotrLow(x[1], x[2], 64, 1024), RotrLow(x[1], x[2], 2048, 32),
        RotrLow(x[2], x[1], 512, 128))
\* ROTR 7, 18, SHR 3
SmallSigma0(x) ==
  Xor3(RotrLow(x[1], x[2], 128, 512), RotrLow(x[2], x[1], 4, 16384),
        Shr(x, 8, 8192))
\* ROTR 17, 19, SHR 10
SmallSigma1(x) ==
  Xor3(RotrLow(x[2], x[1], 2, 32768), RotrLow(x[2], x[1], 8, 8192),
        Shr(x, 1024, 64))
Ch(e, f, g) == <<ChHalf(e[1], f[1], g[1]), ChHalf(e[2], f[2], g[2])>>
Maj(a, b, c) == <<MajHalf(a[1], b[1], c[1]), MajHalf(a[2], b[2], c[2])>>

SHA256_K ==
  <<<<17034, 12184>>, <<28983, 17553>>, <<46528, 64463>>, <<59829, 56229>>,
    <<14678, 49755>>, <<23025, 4593>>, <<37439, 33444>>, <<43804, 24277>>,
    <<55303, 43672>>, <<4739, 23297>>, <<9265, 34238>>, <<21772, 32195>>,
    <<29374, 23924>>, <<32990, 45566>>, <<39900, 1703>>, <<49563, 61812>>,
    <<58523, 27073>>, <<61374, 18310>>, <<4033, 40390>>, <<9228, 41420>>,
    <<11753, 11375>>, <<19060, 33962>>, <<23728, 43484>>, <<30457, 35034>>,
    <<38974, 20818>>, <<43057, 50797>>, <<45059, 10184>>, <<48985, 32711>>,
    <<50912, 3059>>, <<54695, 37191>>, <<1738, 25425>>, <<5161, 10599>>,
    <<10167, 2693>>, <<11803, 8504>>, <<19756, 28156>>, <<21304, 3347>>,
    <<25866, 29524>>, <<30314, 2747>>, <<33218, 51502>>, <<37490, 11397>>,
    <<41663, 59553>>, <<43034, 26187>>, <<49739, 35696>>, <<51052, 20899>>,
    <<53650, 59417>>, <<54937, 1572>>, <<62478, 13701>>, <<4202, 41072>>,
    <<6564, 49430>>, <<7735, 27656>>, <<10056, 30540>>, <<13488, 48309>>,
    <<14620, 3251>>, <<20184, 43594>>, <<23452, 51791>>, <<26670, 28659>>,
    <<29839, 33518>>, <<30885, 25455>>, <<33992, 30740>>, <<36039, 520>>,
    <<37054, 65530>>, <<42064, 27883>>, <<48889, 41975>>, <<50801, 30962>>>>

SHA256_H0 ==
  <<<<27145, 58983>>, <<47975, 44677>>, <<15470, 62322>>, <<42319, 62778>>,
    <<20750, 21119>>, <<39685, 26764>>, <<8067, 55723>>, <<23520, 52505>>>>

\* message schedule: W[t] = s1(W[t-2]) + W[t-7] + s0(W[t-15]) + W[t-16]
ScheduleWord(w) ==
  LET t == Len(w) + 1
  IN  Append(w, Add(Add(w[t-16], SmallSigma0(w[t-15])), Add(w[t-7], SmallSigma1(w[t-2]))))

\* the next schedule word, once the words before it have been computed
ScheduleWordAfter(w) == IF Len(w) < 16 THEN <<>> ELSE ScheduleWord(w)

\* eight schedule words
Schedule8(w) ==
  ScheduleWordAfter(ScheduleWordAfter(ScheduleWordAfter(ScheduleWordAfter(
    ScheduleWordAfter(ScheduleWordAfter(ScheduleWordAfter(ScheduleWordAfter(w))))))))

Schedule8After(w) == IF Len(w) < 16 THEN <<>> ELSE Schedule8(w)

\* the 64 schedule words of a block
Schedule(w16) ==
  Schedule8After(Schedule8After(Schedule8After(
    Schedule8After(Schedule8After(Schedule8After(w16))))))

\* the working variables after a round, from T1 and T2
RoundOut(s, t1, t2) ==
  <<Add(t1, t2), s[1], s[2], s[3], Add(s[4], t1), s[5], s[6], s[7]>>

\* one round on the working variables s = <<a, b, c, d, e, f, g, h>>
Round(s, w, t) ==
  RoundOut(s,
           Add(Add(Add(s[8], BigSigma1(s[5])), Add(Ch(s[5], s[6], s[7]), SHA256_K[t])), w[t]),
           Add(BigSigma0(s[1]), Maj(s[1], s[2], s[3])))

\* round t, once the working variables before it have been computed
RoundAfter(s, w, t) == IF Len(s) # 8 THEN <<>> ELSE Round(s, w, t)

\* rounds t+1 .. t+8
Rounds8(s, w, t) ==
  RoundAfter(RoundAfter(RoundAfter(RoundAfter(
    RoundAfter(RoundAfter(RoundAfter(RoundAfter(
      s, w, t + 1), w, t + 2), w, t + 3), w, t + 4),
      w, t + 5), w, t + 6), w, t + 7), w, t + 8)

Rounds8After(s, w, t) == IF Len(s) # 8 THEN <<>> ELSE Rounds8(s, w, t)

\* the 64 rounds of a block
Rounds(h, w) ==
  Rounds8After(Rounds8After(Rounds8After(Rounds8After(
    Rounds8After(Rounds8After(Rounds8After(Rounds8After(
      h, w, 0), w, 8), w, 16), w, 24), w, 32), w, 40), w, 48), w, 56)

\* the sixteen big-endian words of a 64-byte block
BlockWords(block) ==
  SubSeq([i \in 1..16 |->
            <<block[4*i-3] * 256 + block[4*i-2], block[4*i-1] * 256 + block[4*i]>>], 1, 16)

\* the chaining value after a block: the old one plus the working variables
AddState(h, s) ==
  IF Len(s) # 8 THEN <<>> ELSE
  <<Add(h[1], s[1]), Add(h[2], s[2]), Add(h[3], s[3]), Add(h[4], s[4]),
    Add(h[5], s[5]), Add(h[6], s[6]), Add(h[7], s[7]), Add(h[8], s[8])>>

Compress(h, block) == AddState(h, Rounds(h, Schedule(BlockWords(block))))

\* 0x80, zero fill to 56 mod 64, then the bit length as a 64-bit big-endian
\* integer (messages here are shorter than 2^28 bytes: the top four bytes are 0)
Pad(msg) ==
  LET len == Len(msg)
      z == (119 - len) % 64
      bits == len * 8
  IN  msg \o <<128>> \o [i \in 1..z |-> 0] \o <<0, 0, 0, 0>>
          \o <<(bits \div 16777216) % 256, (bits \div 65536) % 256,
               (bits \div 256) % 256, bits % 256>>

\* Context::update over the padded message (one or two blocks: every signed
\* string of the model is shorter than 120 bytes)
Blocks(m) ==
  IF Len(m) = 64 THEN Compress(SHA256_H0, SubSeq(m, 1, 64))
  ELSE Compress(Compress(SHA256_H0, SubSeq(m, 1, 64)), SubSeq(m, 65, 128))

\* the 32 bytes of the eight words of h, big-endian
DigestBytes(h) ==
  IF Len(h) # 8 THEN <<>> ELSE
  SubSeq([i \in 1..32 |->
    IF (i - 1) % 4 = 0 THEN h[((i - 1) \div 4) + 1][1] \div 256
    ELSE IF (i - 1) % 4 = 1 THEN h[((i - 1) \div 4) + 1][1] % 256
    ELSE IF (i - 1) % 4 = 2 THEN h[((i - 1) \div 4) + 1][2] \div 256
    ELSE h[((i - 1) \div 4) + 1][2] % 256], 1, 32)

\* Context::new(&SHA256), update(msg), finish(): the 32 digest bytes
SHA256(msg) == DigestBytes(Blocks(Pad(msg)))

(***************************************************************************)
(* data_encoding::HEXLOWER and u64::to_string                              *)
(***************************************************************************)
\* '0'..'9' are 48..57, 'a'..'f' are 97..102
HexDigit(n) == IF n < 10 THEN 48 + n ELSE 87 + n
HEXLOWER_encode(bytes) ==
  SubSeq([i \in 1..(2 * Len(bytes)) |->
     IF i % 2 = 1 THEN HexDigit(bytes[(i + 1) \div 2] \div 16)
     ELSE HexDigit(bytes[i \div 2] % 16)], 1, 2 * Len(bytes))

\* decimal rendering, most significant digit first, no leading zero
to_string(n) ==
  LET nd == 1 + Cardinality({k \in 1..9 : 10^k <= n})
  IN  SubSeq([i \in 1..nd |-> 48 + ((n \div (10^(nd - i))) % 10)], 1, nd)

(***************************************************************************)
(* Bounds of the model                                                     *)
(***************************************************************************)
MaxCalls == 2        \* upload_media calls observed up to the issue of their POST
MaxUploads == 1      \* upload_media calls followed to their result
MaxTick == 1         \* seconds the wall clock advances
MaxEnvWrites == 1    \* writes to the process environment after start
MaxFileLen == 2      \* bytes in the longest file source
MaxFrame == 2        \* bytes one read of the file source returns at most

Calls == 1..MaxCalls
ClockValues == 1700000000..(1700000000 + MaxTick)

Min(S) == CHOOSE x \in S : \A y \in S : x <= y

(***************************************************************************)
(* Byte strings                                                            *)
(***************************************************************************)
TIMESTAMP_EQ == <<116, 105, 109, 101, 115, 116, 97, 109, 112, 61>>   \* "timestamp="
V1_1 == <<47, 118, 49, 95, 49, 47>>   \* "/v1_1/"
AUTO_UPLOAD == <<47, 97, 117, 116, 111, 47, 117, 112, 108, 111, 97, 100, 63, 97, 112, 105, 95, 107, 101, 121, 61>>   \* "/auto/upload?api_key="
AUTO_PRIVATE == <<47, 97, 117, 116, 111, 47, 112, 114, 105, 118, 97, 116, 101, 63, 97, 112, 105, 95, 107, 101, 121, 61>>   \* "/auto/private?api_key="
AMP_TIMESTAMP == <<38, 116, 105, 109, 101, 115, 116, 97, 109, 112, 61>>   \* "&timestamp="
AMP_SIGNATURE == <<38, 115, 105, 103, 110, 97, 116, 117, 114, 101, 61>>   \* "&signature="
AUTO_UPLOAD_PATH == <<47, 97, 117, 116, 111, 47, 117, 112, 108, 111, 97, 100>>   \* "/auto/upload"
AUTO_PRIVATE_PATH == <<47, 97, 117, 116, 111, 47, 112, 114, 105, 118, 97, 116, 101>>   \* "/auto/private"
P_API_KEY == <<97, 112, 105, 95, 107, 101, 121>>   \* "api_key"
P_TIMESTAMP == <<116, 105, 109, 101, 115, 116, 97, 109, 112>>   \* "timestamp"
P_SIGNATURE == <<115, 105, 103, 110, 97, 116, 117, 114, 101>>   \* "signature"
QUESTION == 63       \* '?'
HASH == 35           \* '#'
AMPERSAND == 38      \* '&'
EQUALS == 61         \* '='

\* values the three environment variables take in the model
KEY_GOOD == <<107, 101, 121>>   \* "key"
KEY_EMPTY == <<>>
KEY_AMP == <<107, 38, 120, 61, 49>>   \* "k&x=1"
SECRET_ABCD == <<97, 98, 99, 100>>   \* "abcd"
SECRET_WXYZ == <<119, 120, 121, 122>>   \* "wxyz"
CLOUD_DEMO == <<100, 101, 109, 111>>   \* "demo"
CLOUD_QUERY == <<100, 63, 101>>   \* "d?e"

EnvNames == {"CLOUDINARY_API_KEY", "CLOUDINARY_API_SECRET", "CLOUDINARY_CLOUD_NAME"}
Unset == [set |-> FALSE, val |-> <<>>]
SetTo(v) == [set |-> TRUE, val |-> v]
EnvValues(n) ==
  IF n = "CLOUDINARY_API_KEY" THEN {KEY_GOOD, KEY_EMPTY, KEY_AMP}
  ELSE IF n = "CLOUDINARY_API_SECRET" THEN {SECRET_ABCD, SECRET_WXYZ}
  ELSE {CLOUD_DEMO, CLOUD_QUERY}
EnvSettings(n) == {Unset} \cup {SetTo(v) : v \in EnvValues(n)}

UploadPrivacy == {"Public", "Private"}

\* file sources: every byte string over distinct byte values up to MaxFileLen
Files == {[i \in 1..n |-> i] : n \in 0..MaxFileLen}

VARIABLES
  env,         \* the process environment: variable name -> Unset or SetTo(value)
  API_KEY,     \* the three lazy statics
  API_SECRET,
  CLOUD_NAME,
  now,         \* the wall clock, Unix seconds
  envWrites,   \* number of writes to the environment so far
  pc,          \* per call: "idle", "called", "panicked", "sending", "awaiting", "done"
  privacy,     \* per call: the UploadPrivacy argument
  file,        \* per call: the bytes of the UploadValue argument
  pos,         \* per call: bytes of the file source read so far
  uri,         \* per call: the Uri built by generate_upload_endpoint
  posts,       \* per call: number of HTTP POST requests issued
  sent,        \* per call: the frames streamed as the request body, in order
  response,    \* per call: the response received
  decoded,     \* per call: whether the JSON decoder was run on a body
  result,      \* per call: the Result returned to the caller
  signed       \* every sign_request invocation: [timestamp, secret, signature]

vars == <<env, API_KEY, API_SECRET, CLOUD_NAME, now, envWrites, pc, privacy, file, pos,
          uri, posts, sent, response, decoded, result, signed>>

(***************************************************************************)
(* lazy_static! credentials, lib.rs:15-22                                  *)
(***************************************************************************)
Uninit == [state |-> "uninit", val |-> <<>>]
Poisoned == [state |-> "poisoned", val |-> <<>>]
Ready(v) == [state |-> "ready", val |-> v]

\* lazy_deref with env::var(..).unwrap_or_default() as the initialiser: a
\* missing variable loads as the empty string instead of panicking
lazy_deref_or_default(cell, v) ==
  IF cell.state = "uninit" THEN Ready(v.val) ELSE cell

\* lazy_deref without the Once: the environment is read at every access
lazy_deref_reload(cell, v) ==
  IF v.set THEN Ready(v.val) ELSE Poisoned

\* Deref of a lazy static: the first access runs env::var(..).expect(..), which
\* stores the value or panics; a panicking initialiser poisons the Once, so
\* every later access panics too; a stored value is never computed again.
lazy_deref(cell, v) ==
  IF cell.state = "uninit"
  THEN IF v.set THEN Ready(v.val) ELSE Poisoned
  ELSE cell

\* sign_request joining the secret with & as if it were a further parameter
sign_request_ampersand(timestamp, secret) ==
  LET pre_signature == ((TIMESTAMP_EQ \o to_string(timestamp)) \o <<AMPERSAND>>) \o secret
  IN  HEXLOWER_encode(SHA256(pre_signature))

(***************************************************************************)
(* sign_request, lib.rs:48-58.  `secret` is the value read through         *)
(* &*API_SECRET at line 51.                                                *)
(***************************************************************************)
sign_request(timestamp, secret) ==
  LET pre_signature == (TIMESTAMP_EQ \o to_string(timestamp)) \o secret
  IN  HEXLOWER_encode(SHA256(pre_signature))

(***************************************************************************)
(* http::uri::PathAndQuery and Uri, lib.rs:84-92                           *)
(***************************************************************************)
\* bytes PathAndQuery accepts in a path
PathByte(b) ==
  \/ b = 33 \/ (b >= 36 /\ b <= 59) \/ b = 61 \/ (b >= 64 /\ b <= 95)
  \/ (b >= 97 /\ b <= 122) \/ b = 124 \/ b = 126
  \/ b = 34 \/ b = 123 \/ b = 125
\* bytes PathAndQuery accepts in a query
QueryByte(b) == b = 33 \/ (b >= 36 /\ b <= 59) \/ b = 61 \/ (b >= 63 /\ b <= 126)

\* str::parse::<PathAndQuery>(): the path ends at the first '?' or '#'; the
\* query ends at the first '#'; a fragment is cut off; any other byte outside
\* the accepted sets is an error.  query is the index of '?', 0 for none.
PathAndQuery_parse(src) ==
  LET len == Len(src)
      stop == Min({i \in 1..len : src[i] = QUESTION \/ src[i] = HASH} \cup {len + 1})
      hasQuery == stop <= len /\ src[stop] = QUESTION
      qend == IF hasQuery
              THEN Min({i \in (stop + 1)..len : src[i] = HASH} \cup {len + 1})
              ELSE stop
      ok == /\ \A i \in 1..(stop - 1) : PathByte(src[i])
            /\ \A i \in (stop + 1)..(qend - 1) : QueryByte(src[i])
  IN  IF ok
      THEN [err |-> FALSE, data |-> SubSeq(src, 1, qend - 1),
            query |-> IF hasQuery THEN stop ELSE 0]
      ELSE [err |-> TRUE, data |-> <<>>, query |-> 0]

NoUri == [scheme |-> "", authority |-> "", path_and_query |-> [err |-> TRUE, data |-> <<>>, query |-> 0]]

\* Uri::path() and Uri::query()
Uri_path(u) ==
  LET pq == u.path_and_query
  IN  IF pq.query = 0 THEN pq.data ELSE SubSeq(pq.data, 1, pq.query - 1)
Uri_has_query(u) == u.path_and_query.query # 0
Uri_query(u) ==
  LET pq == u.path_and_query
  IN  IF pq.query = 0 THEN <<>> ELSE SubSeq(pq.data, pq.query + 1, Len(pq.data))

\* format! with the signature written before the timestamp
format_path_and_query_reordered(privacy_, cloud, key, timestamp, signature) ==
  LET Public == privacy_
  IN  IF Public = privacy_
      THEN V1_1 \o cloud \o AUTO_UPLOAD \o key
             \o AMP_SIGNATURE \o signature \o AMP_TIMESTAMP \o to_string(timestamp)
      ELSE V1_1 \o cloud \o AUTO_PRIVATE \o key
             \o AMP_SIGNATURE \o signature \o AMP_TIMESTAMP \o to_string(timestamp)

\* format! given a later clock reading than the one that was signed
format_path_and_query_later_clock(privacy_, cloud, key, timestamp, signature) ==
  LET Public == privacy_
  IN  IF Public = privacy_
      THEN V1_1 \o cloud \o AUTO_UPLOAD \o key
             \o AMP_TIMESTAMP \o to_string(timestamp + 1) \o AMP_SIGNATURE \o signature
      ELSE V1_1 \o cloud \o AUTO_PRIVATE \o key
             \o AMP_TIMESTAMP \o to_string(timestamp + 1) \o AMP_SIGNATURE \o signature

(***************************************************************************)
(* generate_upload_endpoint, lib.rs:60-93                                  *)
(***************************************************************************)
\* the match at lines 68-83.  UploadPrivacy's variants are not in scope under
\* their bare names, so the pattern `Public` of the first arm is an identifier
\* pattern: it binds the scrutinee and matches every value.
format_path_and_query(privacy_, cloud, key, timestamp, signature) ==
  LET Public == privacy_
  IN  IF Public = privacy_
      THEN V1_1 \o cloud \o AUTO_UPLOAD \o key
             \o AMP_TIMESTAMP \o to_string(timestamp) \o AMP_SIGNATURE \o signature
      ELSE V1_1 \o cloud \o AUTO_PRIVATE \o key
             \o AMP_TIMESTAMP \o to_string(timestamp) \o AMP_SIGNATURE \o signature

\* The outcome of one call of generate_upload_endpoint with the clock reading
\* `clock`, the statics `cells` and the environment `e`: the statics afterwards,
\* the sign_request invocations made, and the Uri or a panic.  The statics are
\* dereferenced in the order API_SECRET (in sign_request), CLOUD_NAME, API_KEY.
Outcome(cells, sgn, panic, u) == [cells |-> cells, signed |-> sgn, panic |-> panic, uri |-> u]

\* build_endpoint going on with an API key that failed to load
build_endpoint_unchecked_key(privacy_, timestamp, signature, sgn, cells, e) ==
  LET cloud == lazy_deref(cells.CLOUD_NAME, e["CLOUDINARY_CLOUD_NAME"])
      key == lazy_deref(cells.API_KEY, e["CLOUDINARY_API_KEY"])
      cells2 == [cells EXCEPT !.CLOUD_NAME = cloud]
      cells3 == [cells EXCEPT !.CLOUD_NAME = cloud, !.API_KEY = key]
      pq == PathAndQuery_parse(
              format_path_and_query(privacy_, cloud.val, key.val, timestamp, signature))
  IN  IF cloud.state # "ready" THEN Outcome(cells2, sgn, TRUE, NoUri)
      ELSE IF pq.err THEN Outcome(cells3, sgn, TRUE, NoUri)
      ELSE Outcome(cells3, sgn, FALSE,
                   [scheme |-> "https", authority |-> "api.cloudinary.com",
                    path_and_query |-> pq])

\* lib.rs:68-92, after sign_request returned `signature` (`sgn` is the record of
\* that invocation): CLOUD_NAME and API_KEY are dereferenced by format!, the
\* text is parsed and the Uri built
build_endpoint(privacy_, timestamp, signature, sgn, cells, e) ==
  LET cloud == lazy_deref(cells.CLOUD_NAME, e["CLOUDINARY_CLOUD_NAME"])
      key == lazy_deref(cells.API_KEY, e["CLOUDINARY_API_KEY"])
      cells2 == [cells EXCEPT !.CLOUD_NAME = cloud]
      cells3 == [cells EXCEPT !.CLOUD_NAME = cloud, !.API_KEY = key]
      pq == PathAndQuery_parse(
              format_path_and_query(privacy_, cloud.val, key.val, timestamp, signature))
  IN  IF cloud.state # "ready" THEN Outcome(cells2, sgn, TRUE, NoUri)
      ELSE IF key.state # "ready" THEN Outcome(cells3, sgn, TRUE, NoUri)
      ELSE IF pq.err THEN Outcome(cells3, sgn, TRUE, NoUri)
      ELSE Outcome(cells3, sgn, FALSE,
                   [scheme |-> "https", authority |-> "api.cloudinary.com",
                    path_and_query |-> pq])

\* the record of one sign_request invocation
Signed(timestamp, secret, signature) ==
  {[timestamp |-> timestamp, secret |-> secret, signature |-> signature]}

\* lib.rs:66-92 once sign_request has returned
signed_endpoint(privacy_, timestamp, secret, signature, cells, e) ==
  build_endpoint(privacy_, timestamp, signature, Signed(timestamp, secret, signature),
                 cells, e)

\* lib.rs:60-93: the clock is read once; sign_request dereferences API_SECRET
generate_upload_endpoint(privacy_, clock, cells, e) ==
  LET timestamp == clock
      secret == lazy_deref(cells.API_SECRET, e["CLOUDINARY_API_SECRET"])
      cells1 == [cells EXCEPT !.API_SECRET = secret]
  IN  IF clock < 0 THEN Outcome(cells, {}, TRUE, NoUri)
      ELSE IF secret.state # "ready" THEN Outcome(cells1, {}, TRUE, NoUri)
      ELSE signed_endpoint(privacy_, timestamp, secret.val,
                           sign_request(timestamp, secret.val), cells1, e)

(***************************************************************************)
(* The response and its decoding, lib.rs:36-39 and 111                     *)
(***************************************************************************)
\* A response is [json_mime, kind, members]: whether its Content-Type is JSON,
\* and its body: "invalid" (not JSON), "unreadable" (the payload failed while
\* being read), "scalar", or an "object" / "array" with its members in order,
\* each [name, type, str] (name "" in an array).
Member(n, t, s) == [name |-> n, type |-> t, str |-> s]
Body(k, ms) == [json_mime |-> TRUE, kind |-> k, members |-> ms]

BODY_OK == Body("object", <<Member("asset_id", "string", "a1")>>)
BODY_EXTRA ==
  Body("object", <<Member("public_id", "string", "p1"), Member("asset_id", "string", "a1"),
                   Member("bytes", "number", "0")>>)
BODY_ERROR == Body("object", <<Member("error", "object", "")>>)
BODY_WRONG_TYPE == Body("object", <<Member("asset_id", "number", "7")>>)
BODY_ARRAY == Body("array", <<Member("", "string", "a1")>>)
BODY_ARRAY_LONG == Body("array", <<Member("", "string", "a1"), Member("", "string", "p1")>>)
BODY_SCALAR == Body("scalar", <<>>)
BODY_INVALID == Body("invalid", <<>>)
BODY_UNREADABLE == Body("unreadable", <<>>)
BODY_NOT_JSON_MIME == [BODY_OK EXCEPT !.json_mime = FALSE]

Responses ==
  {BODY_OK, BODY_EXTRA, BODY_ERROR, BODY_WRONG_TYPE, BODY_ARRAY, BODY_ARRAY_LONG,
   BODY_SCALAR, BODY_INVALID, BODY_UNREADABLE, BODY_NOT_JSON_MIME}
NoResponse == [json_mime |-> FALSE, kind |-> "none", members |-> <<>>]

Ok(id) == [tag |-> "Ok", asset_id |-> id, msg |-> ""]
Err(m) == [tag |-> "Err", asset_id |-> "", msg |-> m]
NoResult == [tag |-> "none", asset_id |-> "", msg |-> ""]

\* the Deserialize of an UploadResponse marked #[serde(deny_unknown_fields)]
UploadResponse_deserialize_deny_unknown_fields(r) ==
  IF r.kind = "object"
  THEN LET ids == {i \in 1..Len(r.members) : r.members[i].name = "asset_id"}
       IN  IF \E i \in 1..Len(r.members) : r.members[i].name # "asset_id"
           THEN Err("unknown field")
           ELSE IF ids = {} THEN Err("missing field asset_id")
           ELSE IF r.members[Min(ids)].type # "string" THEN Err("invalid type")
           ELSE IF Cardinality(ids) > 1 THEN Err("duplicate field asset_id")
           ELSE Ok(r.members[Min(ids)].str)
  ELSE IF r.kind = "array"
  THEN IF Len(r.members) = 0 THEN Err("invalid length 0")
       ELSE IF r.members[1].type # "string" THEN Err("invalid type")
       ELSE IF Len(r.members) > 1 THEN Err("trailing characters")
       ELSE Ok(r.members[1].str)
  ELSE IF r.kind = "scalar" THEN Err("invalid type")
  ELSE Err("expected value")

\* the Deserialize that #[derive] generates for UploadResponse { asset_id: String }:
\* from a map, the member asset_id must occur once and hold a string and every
\* other member is skipped; from a sequence, the first element is asset_id and
\* there must be no further element.
UploadResponse_deserialize(r) ==
  IF r.kind = "object"
  THEN LET ids == {i \in 1..Len(r.members) : r.members[i].name = "asset_id"}
       IN  IF ids = {} THEN Err("missing field asset_id")
           ELSE IF r.members[Min(ids)].type # "string" THEN Err("invalid type")
           ELSE IF Cardinality(ids) > 1 THEN Err("duplicate field asset_id")
           ELSE Ok(r.members[Min(ids)].str)
  ELSE IF r.kind = "array"
  THEN IF Len(r.members) = 0 THEN Err("invalid length 0")
       ELSE IF r.members[1].type # "string" THEN Err("invalid type")
       ELSE IF Len(r.members) > 1 THEN Err("trailing characters")
       ELSE Ok(r.members[1].str)
  ELSE IF r.kind = "scalar" THEN Err("invalid type")
  ELSE Err("expected value")

\* response.json::<UploadResponse>().await?: the content type is checked, the
\* payload is read, then the body is decoded
response_json(r) ==
  IF ~r.json_mime THEN Err("Content type error")
  ELSE IF r.kind = "unreadable" THEN Err("Error that occur during reading payload")
  ELSE UploadResponse_deserialize(r)

\* whether response.json() gets as far as running the decoder on a body
runs_decoder(r) == r.json_mime /\ r.kind # "unreadable"

\* SendRequestError and its Display text, as anyhow!(e.to_string()) takes it
TransportErrors == {"Connect", "Timeout"}
SendRequestError_to_string(e) ==
  IF e = "Connect" THEN "Failed to connect to host" ELSE "Timeout while waiting for response"

\* a reader that starts at the beginning of the source at every read
read_rewound(f, p, n) == SubSeq(f, 1, n)

(***************************************************************************)
(* The file source and its framing, lib.rs:98-101                          *)
(***************************************************************************)
\* one read of n bytes from the AsyncRead at offset p
read(f, p, n) == SubSeq(f, p + 1, p + n)
\* BytesCodec::decode hands the whole buffer on as one frame; freeze() keeps it
BytesCodec_decode(buf) == buf

RECURSIVE Concat(_)
Concat(frames) == IF frames = <<>> THEN <<>> ELSE Head(frames) \o Concat(Tail(frames))

(***************************************************************************)
(* Actions                                                                 *)
(***************************************************************************)
Cells == [API_KEY |-> API_KEY, API_SECRET |-> API_SECRET, CLOUD_NAME |-> CLOUD_NAME]

\* some code of the process writes or removes an environment variable
SetEnv(n, v) ==
  /\ envWrites < MaxEnvWrites
  /\ v # env[n]
  /\ env' = [env EXCEPT ![n] = v]
  /\ envWrites' = envWrites + 1
  /\ UNCHANGED <<API_KEY, API_SECRET, CLOUD_NAME, now, pc, privacy, file, pos, uri, posts,
                 sent, response, decoded, result, signed>>

\* the wall clock moves on by a second
Tick ==
  /\ now < 1700000000 + MaxTick
  /\ now' = now + 1
  /\ UNCHANGED <<env, API_KEY, API_SECRET, CLOUD_NAME, envWrites, pc, privacy, file, pos,
                 uri, posts, sent, response, decoded, result, signed>>

\* lib.rs:95: a caller invokes upload_media(file, privacy); the future exists
\* and nothing of the body has run yet.  Calls are numbered in order of arrival.
Call(c, p, f) ==
  /\ pc[c] = "idle"
  /\ \A d \in 1..(c - 1) : pc[d] # "idle"
  /\ pc' = [pc EXCEPT ![c] = "called"]
  /\ privacy' = [privacy EXCEPT ![c] = p]
  /\ file' = [file EXCEPT ![c] = f]
  /\ UNCHANGED <<env, API_KEY, API_SECRET, CLOUD_NAME, now, envWrites, pos, uri, posts,
                 sent, response, decoded, result, signed>>

\* lib.rs:96-108: the first poll of the future runs generate_upload_endpoint,
\* sets up the framed reader and the client and issues the POST, up to the
\* first suspension in send_stream(..).await; a panic ends the call.
FirstPoll(c) ==
  /\ pc[c] = "called"
  /\ \E r \in {generate_upload_endpoint(privacy[c], now, Cells, env)} :
       /\ API_KEY' = r.cells.API_KEY
       /\ API_SECRET' = r.cells.API_SECRET
       /\ CLOUD_NAME' = r.cells.CLOUD_NAME
       /\ signed' = signed \cup r.signed
       /\ uri' = [uri EXCEPT ![c] = r.uri]
       /\ IF r.panic
          THEN /\ pc' = [pc EXCEPT ![c] = "panicked"]
               /\ posts' = posts
          ELSE /\ pc' = [pc EXCEPT ![c] = "sending"]
               /\ posts' = [posts EXCEPT ![c] = @ + 1]
  /\ UNCHANGED <<env, now, envWrites, privacy, file, pos, sent, response, decoded, result>>

\* lib.rs:100-107: the request body stream is polled: FramedRead reads n bytes
\* from the file source and BytesCodec passes them on as one frame
SendFrame(c, n) ==
  /\ pc[c] = "sending"
  /\ pos[c] + n <= Len(file[c])
  /\ sent' = [sent EXCEPT ![c] = Append(@, BytesCodec_decode(read(file[c], pos[c], n)))]
  /\ pos' = [pos EXCEPT ![c] = @ + n]
  /\ UNCHANGED <<env, API_KEY, API_SECRET, CLOUD_NAME, now, envWrites, pc, privacy, file,
                 uri, posts, response, decoded, result, signed>>

\* the file source is at its end: the body stream ends and the response is awaited
EndOfStream(c) ==
  /\ pc[c] = "sending"
  /\ pos[c] = Len(file[c])
  /\ pc' = [pc EXCEPT ![c] = "awaiting"]
  /\ UNCHANGED <<env, API_KEY, API_SECRET, CLOUD_NAME, now, envWrites, privacy, file, pos,
                 uri, posts, sent, response, decoded, result, signed>>

\* a failed exchange that starts the call over instead of returning the error
TransportFail_retry(c, e) ==
  /\ pc[c] \in {"sending", "awaiting"}
  /\ pc' = [pc EXCEPT ![c] = "called"]
  /\ pos' = [pos EXCEPT ![c] = 0]
  /\ sent' = [sent EXCEPT ![c] = <<>>]
  /\ UNCHANGED <<env, API_KEY, API_SECRET, CLOUD_NAME, now, envWrites, privacy, file,
                 uri, posts, response, decoded, result, signed>>

\* lib.rs:108-109: send_stream fails; .map_err(|e| anyhow!(e.to_string()))? returns
TransportFail(c, e) ==
  /\ pc[c] \in {"sending", "awaiting"}
  /\ result' = [result EXCEPT ![c] = Err(SendRequestError_to_string(e))]
  /\ pc' = [pc EXCEPT ![c] = "done"]
  /\ UNCHANGED <<env, API_KEY, API_SECRET, CLOUD_NAME, now, envWrites, privacy, file, pos,
                 uri, posts, sent, response, decoded, signed>>

\* lib.rs:111-113: the response arrives; response.json().await? decodes it and
\* the call returns
Respond(c, r) ==
  /\ pc[c] = "awaiting"
  /\ response' = [response EXCEPT ![c] = r]
  /\ decoded' = [decoded EXCEPT ![c] = runs_decoder(r)]
  /\ result' = [result EXCEPT ![c] = response_json(r)]
  /\ pc' = [pc EXCEPT ![c] = "done"]
  /\ UNCHANGED <<env, API_KEY, API_SECRET, CLOUD_NAME, now, envWrites, privacy, file, pos,
                 uri, posts, sent, signed>>

(***************************************************************************)
(* Specifications                                                          *)
(***************************************************************************)
InitProcess ==
  /\ API_KEY = Uninit
  /\ API_SECRET = Uninit
  /\ CLOUD_NAME = Uninit
  /\ envWrites = 0
  /\ pc = [c \in Calls |-> "idle"]
  /\ privacy = [c \in Calls |-> "none"]
  /\ file = [c \in Calls |-> <<>>]
  /\ pos = [c \in Calls |-> 0]
  /\ uri = [c \in Calls |-> NoUri]
  /\ posts = [c \in Calls |-> 0]
  /\ sent = [c \in Calls |-> <<>>]
  /\ response = [c \in Calls |-> NoResponse]
  /\ decoded = [c \in Calls |-> FALSE]
  /\ result = [c \in Calls |-> NoResult]
  /\ signed = {}

GoodEnv ==
  [n \in EnvNames |->
     IF n = "CLOUDINARY_API_KEY" THEN SetTo(KEY_GOOD)
     ELSE IF n = "CLOUDINARY_API_SECRET" THEN SetTo(SECRET_ABCD)
     ELSE SetTo(CLOUD_DEMO)]

\* the process starts in any environment
InitCredentials ==
  /\ env \in {e \in [EnvNames -> UNION {EnvSettings(n) : n \in EnvNames}] :
                \A n \in EnvNames : e[n] \in EnvSettings(n)}
  /\ now = 1700000000
  /\ InitProcess

\* calls up to the issue of their POST, in an environment that stays as it is
NextCredentials ==
  \/ \E c \in Calls, p \in UploadPrivacy : Call(c, p, <<>>)
  \/ \E c \in Calls : FirstPoll(c)

SpecCredentials == InitCredentials /\ [][NextCredentials]_vars

\* the process starts with the three credentials set
InitEndpoint ==
  /\ env = GoodEnv
  /\ now = 1700000000
  /\ InitProcess

\* calls up to the issue of their POST, while the clock runs and the secret
\* in the environment is rewritten or removed
NextEndpoint ==
  \/ \E v \in EnvSettings("CLOUDINARY_API_SECRET") : SetEnv("CLOUDINARY_API_SECRET", v)
  \/ Tick
  \/ \E c \in Calls, p \in UploadPrivacy : Call(c, p, <<>>)
  \/ \E c \in Calls : FirstPoll(c)

SpecEndpoint == InitEndpoint /\ [][NextEndpoint]_vars

\* the process starts with the three credentials set
InitUpload ==
  /\ env = GoodEnv
  /\ now = 1700000000
  /\ InitProcess

\* calls followed from the invocation to the result
NextUpload ==
  \/ \E c \in 1..MaxUploads, p \in UploadPrivacy, f \in Files : Call(c, p, f)
  \/ \E c \in 1..MaxUploads : FirstPoll(c)
  \/ \E c \in 1..MaxUploads, n \in 1..MaxFrame : SendFrame(c, n)
  \/ \E c \in 1..MaxUploads : EndOfStream(c)
  \/ \E c \in 1..MaxUploads, e \in TransportErrors : TransportFail(c, e)
  \/ \E c \in 1..MaxUploads, r \in Responses : Respond(c, r)

SpecUpload == InitUpload /\ [][NextUpload]_vars

(***************************************************************************)
(* Observations used by the properties                                     *)
(***************************************************************************)
\* the call has a Uri: generate_upload_endpoint returned
Built(c) == pc[c] \in {"sending", "awaiting", "done"}

\* s cut at every occurrence of the byte b, the pieces in order
Split(s, b) ==
  LET cuts == {i \in 1..Len(s) : s[i] = b} \cup {0, Len(s) + 1}
      Cut(k) == CHOOSE i \in cuts : Cardinality({j \in cuts : j < i}) = k
  IN  [k \in 1..(Cardinality(cuts) - 1) |-> SubSeq(s, Cut(k - 1) + 1, Cut(k) - 1)]

\* the name and the value of a query parameter name=value
ParamName(p) ==
  LET eqs == {i \in 1..Len(p) : p[i] = EQUALS}
  IN  IF eqs = {} THEN p ELSE SubSeq(p, 1, Min(eqs) - 1)
ParamValue(p) ==
  LET eqs == {i \in 1..Len(p) : p[i] = EQUALS}
  IN  IF eqs = {} THEN <<>> ELSE SubSeq(p, Min(eqs) + 1, Len(p))

\* the parameters of the query of a Uri, in order
QueryParams(u) == IF Uri_has_query(u) THEN Split(Uri_query(u), AMPERSAND) ELSE <<>>

\* the value of the first parameter called name, <<>> if there is none
QueryParam(u, name) ==
  LET ps == QueryParams(u)
      hits == {i \in 1..Len(ps) : ParamName(ps[i]) = name}
  IN  IF hits = {} THEN <<>> ELSE ParamValue(ps[Min(hits)])

\* scheme https, authority api.cloudinary.com, and a query made of exactly
\* api_key, timestamp, signature in this order, each with a non-empty value
WellFormed(u) ==
  /\ u.scheme = "https"
  /\ u.authority = "api.cloudinary.com"
  /\ Uri_has_query(u)
  /\ LET ps == QueryParams(u)
     IN  /\ Len(ps) = 3
         /\ ParamName(ps[1]) = P_API_KEY
         /\ ParamName(ps[2]) = P_TIMESTAMP
         /\ ParamName(ps[3]) = P_SIGNATURE
         /\ \A i \in 1..3 : ParamValue(ps[i]) # <<>>

\* a non-empty string of URI-unreserved characters: letters, digits, - . _ ~
Unreserved(s) ==
  /\ s # <<>>
  /\ \A i \in 1..Len(s) :
       \/ (s[i] >= 65 /\ s[i] <= 90) \/ (s[i] >= 97 /\ s[i] <= 122)
       \/ (s[i] >= 48 /\ s[i] <= 57) \/ s[i] \in {45, 46, 95, 126}

\* SHA-256 digests in lowercase hexadecimal, computed with a reference
\* implementation, of "timestamp=" followed by the decimal timestamp and the secret
ReferenceSignatures ==
  {
   \* sha256("timestamp=1700000000abcd") = 29886ed878035abc09e29f7e8ce19b01d9f3caa3ad0851d5d5c2aaa5ab812369
   [timestamp |-> 1700000000, secret |-> <<97, 98, 99, 100>>, signature |->
      <<50, 57, 56, 56, 54, 101, 100, 56, 55, 56, 48, 51, 53, 97, 98, 99, 48, 57, 101, 50, 57, 102, 55, 101, 56, 99, 101, 49, 57, 98, 48, 49, 100, 57, 102, 51, 99, 97, 97, 51, 97, 100, 48, 56, 53, 49, 100, 53, 100, 53, 99, 50, 97, 97, 97, 53, 97, 98, 56, 49, 50, 51, 54, 57>>],
   \* sha256("timestamp=1700000000wxyz") = dd31b527dc5772b15a1e3e7f51702198de21e4c2298cd87332244a008eaa4fae
   [timestamp |-> 1700000000, secret |-> <<119, 120, 121, 122>>, signature |->
      <<100, 100, 51, 49, 98, 53, 50, 55, 100, 99, 53, 55, 55, 50, 98, 49, 53, 97, 49, 101, 51, 101, 55, 102, 53, 49, 55, 48, 50, 49, 57, 56, 100, 101, 50, 49, 101, 52, 99, 50, 50, 57, 56, 99, 100, 56, 55, 51, 51, 50, 50, 52, 52, 97, 48, 48, 56, 101, 97, 97, 52, 102, 97, 101>>],
   \* sha256("timestamp=1700000001abcd") = a073dd1902341c70802e71ee932606ecc96079e5ba5816ad0d7cfeee4458dfad
   [timestamp |-> 1700000001, secret |-> <<97, 98, 99, 100>>, signature |->
      <<97, 48, 55, 51, 100, 100, 49, 57, 48, 50, 51, 52, 49, 99, 55, 48, 56, 48, 50, 101, 55, 49, 101, 101, 57, 51, 50, 54, 48, 54, 101, 99, 99, 57, 54, 48, 55, 57, 101, 53, 98, 97, 53, 56, 49, 54, 97, 100, 48, 100, 55, 99, 102, 101, 101, 101, 52, 52, 53, 56, 100, 102, 97, 100>>],
   \* sha256("timestamp=1700000001wxyz") = bec5501e1e589cca573cfbf5fb4a49931c5d8fac8324d24261356f142bf8e62b
   [timestamp |-> 1700000001, secret |-> <<119, 120, 121, 122>>, signature |->
      <<98, 101, 99, 53, 53, 48, 49, 101, 49, 101, 53, 56, 57, 99, 99, 97, 53, 55, 51, 99, 102, 98, 102, 53, 102, 98, 52, 97, 52, 57, 57, 51, 49, 99, 53, 100, 56, 102, 97, 99, 56, 51, 50, 52, 100, 50, 52, 50, 54, 49, 51, 53, 54, 102, 49, 52, 50, 98, 102, 56, 101, 54, 50, 98>>],
   \* sha256("timestamp=1700000002abcd") = 816fab5276e933bcf0e86591f0263d6cee5c085fa3c154a5700cf3e8a28b4a8c
   [timestamp |-> 1700000002, secret |-> <<97, 98, 99, 100>>, signature |->
      <<56, 49, 54, 102, 97, 98, 53, 50, 55, 54, 101, 57, 51, 51, 98, 99, 102, 48, 101, 56, 54, 53, 57, 49, 102, 48, 50, 54, 51, 100, 54, 99, 101, 101, 53, 99, 48, 56, 53, 102, 97, 51, 99, 49, 53, 52, 97, 53, 55, 48, 48, 99, 102, 51, 101, 56, 97, 50, 56, 98, 52, 97, 56, 99>>],
   \* sha256("timestamp=1700000002wxyz") = 7bea69b9436e705476e48b5d6d80a44f77a6eb79a73c088300ca0016b29561f4
   [timestamp |-> 1700000002, secret |-> <<119, 120, 121, 122>>, signature |->
      <<55, 98, 101, 97, 54, 57, 98, 57, 52, 51, 54, 101, 55, 48, 53, 52, 55, 54, 101, 52, 56, 98, 53, 100, 54, 100, 56, 48, 97, 52, 52, 102, 55, 55, 97, 54, 101, 98, 55, 57, 97, 55, 51, 99, 48, 56, 56, 51, 48, 48, 99, 97, 48, 48, 49, 54, 98, 50, 57, 53, 54, 49, 102, 52>>],
   \* sha256("timestamp=1700000003abcd") = eacae4bc891456ac411df33db8d84c00f317e0c49917d0e144343dd3984c7e2d
   [timestamp |-> 1700000003, secret |-> <<97, 98, 99, 100>>, signature |->
      <<101, 97, 99, 97, 101, 52, 98, 99, 56, 57, 49, 52, 53, 54, 97, 99, 52, 49, 49, 100, 102, 51, 51, 100, 98, 56, 100, 56, 52, 99, 48, 48, 102, 51, 49, 55, 101, 48, 99, 52, 57, 57, 49, 55, 100, 48, 101, 49, 52, 52, 51, 52, 51, 100, 100, 51, 57, 56, 52, 99, 55, 101, 50, 100>>],
   \* sha256("timestamp=1700000003wxyz") = 9cd53853d7f43b20dcba26e5e24185914683b88e104ff33b127cb4d02212e095
   [timestamp |-> 1700000003, secret |-> <<119, 120, 121, 122>>, signature |->
      <<57, 99, 100, 53, 51, 56, 53, 51, 100, 55, 102, 52, 51, 98, 50, 48, 100, 99, 98, 97, 50, 54, 101, 53, 101, 50, 52, 49, 56, 53, 57, 49, 52, 54, 56, 51, 98, 56, 56, 101, 49, 48, 52, 102, 102, 51, 51, 98, 49, 50, 55, 99, 98, 52, 100, 48, 50, 50, 49, 50, 101, 48, 57, 53>>]
  }

(***************************************************************************)
(* C1: the path of the Uri is selected by the visibility: Public gives     *)
(* /v1_1/<cloud>/auto/upload and Private gives /v1_1/<cloud>/auto/private. *)
(* The match of lines 68-83 takes its first arm for every value, so a      *)
(* Private call gets the upload path.                                      *)
(***************************************************************************)
C1_PathSelectedByPrivacy ==
  \A c \in Calls :
    Built(c) =>
      Uri_path(uri[c]) =
        (V1_1 \o CLOUD_NAME.val)
          \o (IF privacy[c] = "Private" THEN AUTO_PRIVATE_PATH ELSE AUTO_UPLOAD_PATH)

(***************************************************************************)
(* C2: every signature sign_request returns is the lowercase hexadecimal   *)
(* SHA-256 digest of "timestamp=" followed by the decimal timestamp and    *)
(* the secret, with no separator, whatever the visibility of the call is.  *)
(***************************************************************************)
C2_SignatureIsReferenceDigest == \A e \in signed : e \in ReferenceSignatures

\* a Private call signed a later clock reading with a secret other than the
\* one the process started with
C2_Witness ==
  /\ \E e \in signed : e.timestamp = 1700000001 /\ e.secret = SECRET_WXYZ
  /\ \E c \in Calls : privacy[c] = "Private" /\ Built(c)

(***************************************************************************)
(* C3 as stated: every Uri built has scheme https, authority               *)
(* api.cloudinary.com and exactly the parameters api_key, timestamp,       *)
(* signature in this order, each non-empty, for every credential triple    *)
(* that gets past loading.                                                 *)
(***************************************************************************)
C3_EveryLoadedTripleWellFormed == \A c \in Calls : Built(c) => WellFormed(uri[c])

(***************************************************************************)
(* C3 amended: the same for every credential triple whose API key and      *)
(* cloud name are non-empty strings of URI-unreserved characters; the      *)
(* api_key parameter then carries the API key.                             *)
(***************************************************************************)
C3_UnreservedTripleWellFormed ==
  \A c \in Calls :
    (Built(c) /\ Unreserved(API_KEY.val) /\ Unreserved(CLOUD_NAME.val)) =>
      /\ WellFormed(uri[c])
      /\ QueryParam(uri[c], P_API_KEY) = API_KEY.val

C3_Witness ==
  \E c \in Calls :
    /\ Built(c)
    /\ API_KEY.val = KEY_GOOD
    /\ CLOUD_NAME.val = CLOUD_DEMO
    /\ Len(QueryParam(uri[c], P_SIGNATURE)) = 64

(***************************************************************************)
(* C4 as stated: a missing credential is detected before the first         *)
(* upload_media call is accepted: no call is ever started while a          *)
(* credential variable is missing.                                         *)
(***************************************************************************)
C4_NoCallWithMissingCredential ==
  \A c \in Calls : pc[c] # "idle" => \A n \in EnvNames : env[n].set

(***************************************************************************)
(* C4 amended: each credential is loaded at most once, on its first use    *)
(* inside the endpoint construction of an upload_media call and from the   *)
(* environment of that moment; a missing variable poisons the static, and  *)
(* a call gets past endpoint construction only with all three loaded.      *)
(***************************************************************************)
LoadedOrPoisonedNow(cell, cell2, v) ==
  cell2 # cell =>
    /\ cell.state = "uninit"
    /\ cell2 = (IF v.set THEN Ready(v.val) ELSE Poisoned)
    /\ \E c \in Calls : pc[c] = "called" /\ pc'[c] \in {"sending", "panicked"}

C4_LoadedOnFirstUse ==
  [][/\ LoadedOrPoisonedNow(API_KEY, API_KEY', env["CLOUDINARY_API_KEY"])
     /\ LoadedOrPoisonedNow(API_SECRET, API_SECRET', env["CLOUDINARY_API_SECRET"])
     /\ LoadedOrPoisonedNow(CLOUD_NAME, CLOUD_NAME', env["CLOUDINARY_CLOUD_NAME"])
     /\ \A c \in Calls :
          (pc[c] = "called" /\ pc'[c] = "sending") =>
            /\ API_KEY'.state = "ready"
            /\ API_SECRET'.state = "ready"
            /\ CLOUD_NAME'.state = "ready"]_vars

\* a call was accepted, loaded the secret and the cloud name, and panicked on
\* the missing API key
C4_Witness ==
  /\ pc[1] = "panicked"
  /\ ~env["CLOUDINARY_API_KEY"].set
  /\ API_SECRET.state = "ready"
  /\ CLOUD_NAME.state = "ready"
  /\ API_KEY = Poisoned

(***************************************************************************)
(* C5: in a process whose environment lacks one of the three credential    *)
(* variables no call ever issues an HTTP POST, whichever variable it is    *)
(* and however many calls are made.                                        *)
(***************************************************************************)
C5_NoPostWithoutCredential ==
  (\E n \in EnvNames : ~env[n].set) => \A c \in Calls : posts[c] = 0

\* two calls have run into the missing cloud name
C5_Witness ==
  /\ ~env["CLOUDINARY_CLOUD_NAME"].set
  /\ env["CLOUDINARY_API_SECRET"].set
  /\ \A c \in 1..2 : pc[c] = "panicked" /\ posts[c] = 0

(***************************************************************************)
(* C6: a call that got past endpoint construction has issued exactly one   *)
(* HTTP POST, a call that did not has issued none, no call ever issues a   *)
(* second one, and a finished call has returned an outcome; this includes  *)
(* a zero-byte file source.                                                *)
(***************************************************************************)
C6_ExactlyOnePost ==
  \A c \in Calls :
    /\ Built(c) => posts[c] = 1
    /\ ~Built(c) => posts[c] = 0
    /\ pc[c] = "done" => result[c].tag \in {"Ok", "Err"}

\* a zero-byte file: one request, failed in transport, and the error returned
C6_Witness ==
  \E c \in Calls :
    /\ pc[c] = "done"
    /\ file[c] = <<>>
    /\ posts[c] = 1
    /\ result[c].tag = "Err"
    /\ response[c] = NoResponse

(***************************************************************************)
(* C7 as stated: Ok only if the exchange succeeded and the body decoded as *)
(* a JSON object carrying a string asset_id.                               *)
(***************************************************************************)
HasStringAssetId(r) ==
  \E i \in 1..Len(r.members) :
    r.members[i].name = "asset_id" /\ r.members[i].type = "string"

C7_OkOnlyFromObject ==
  \A c \in Calls :
    result[c].tag = "Ok" =>
      /\ response[c] # NoResponse
      /\ response[c].kind = "object"
      /\ HasStringAssetId(response[c])

(***************************************************************************)
(* C7 amended: Ok only if the exchange succeeded and the body decoded      *)
(* either as a JSON object carrying a string asset_id or as a JSON array   *)
(* of exactly one string; a transport failure returns Err with the text of *)
(* the transport error and without running the decoder; a body that is not *)
(* valid JSON or lacks asset_id returns Err; members with other names do   *)
(* not turn a success into an error.                                       *)
(***************************************************************************)
C7_OkOnlyFromDecodedBody ==
  \A c \in Calls :
    LET r == response[c]
    IN  /\ result[c].tag = "Ok" =>
             /\ r # NoResponse
             /\ decoded[c]
             /\ \/ /\ r.kind = "object"
                   /\ \E i \in 1..Len(r.members) :
                        /\ r.members[i].name = "asset_id"
                        /\ r.members[i].type = "string"
                        /\ r.members[i].str = result[c].asset_id
                \/ /\ r.kind = "array"
                   /\ Len(r.members) = 1
                   /\ r.members[1].type = "string"
                   /\ r.members[1].str = result[c].asset_id
        /\ (pc[c] = "done" /\ r = NoResponse) =>
             /\ result[c].tag = "Err"
             /\ \E e \in TransportErrors : result[c].msg = SendRequestError_to_string(e)
             /\ ~decoded[c]
        /\ (r # NoResponse /\ r.kind = "invalid") => result[c].tag = "Err"
        /\ (r # NoResponse /\ r.kind = "object" /\ ~HasStringAssetId(r)) =>
             result[c].tag = "Err"
        /\ (r.json_mime /\ r.kind = "object" /\ HasStringAssetId(r)) => result[c].tag = "Ok"

\* a response with further members next to asset_id was decoded to Ok
C7_Witness ==
  \E c \in Calls :
    /\ pc[c] = "done"
    /\ response[c] = BODY_EXTRA
    /\ result[c] = Ok("a1")

(***************************************************************************)
(* C8: two sign_request calls with the same timestamp return the same      *)
(* signature, in any interleaving of calls, and every call signs with the  *)
(* secret the first call read, also after the environment variable was     *)
(* changed.                                                                *)
(***************************************************************************)
C8_SameTimestampSameSignature ==
  /\ \A e1 \in signed : \A e2 \in signed :
       /\ e1.secret = e2.secret
       /\ e1.timestamp = e2.timestamp => e1.signature = e2.signature
  /\ \A c1 \in Calls : \A c2 \in Calls :
       (/\ Built(c1)
        /\ Built(c2)
        /\ QueryParam(uri[c1], P_TIMESTAMP) = QueryParam(uri[c2], P_TIMESTAMP)) =>
         QueryParam(uri[c1], P_SIGNATURE) = QueryParam(uri[c2], P_SIGNATURE)

\* two calls signed the same timestamp and the variable no longer holds the
\* secret that was read
C8_Witness ==
  /\ Built(1)
  /\ Built(2)
  /\ QueryParam(uri[1], P_TIMESTAMP) = QueryParam(uri[2], P_TIMESTAMP)
  /\ API_SECRET.state = "ready"
  /\ env["CLOUDINARY_API_SECRET"] # SetTo(API_SECRET.val)

(***************************************************************************)
(* C9: the frames streamed as the request body, concatenated in order, are *)
(* the bytes of the file source read so far, and the whole file once the   *)
(* stream has ended; no frame is empty and the reader never passes the end *)
(* of the source.                                                          *)
(***************************************************************************)
C9_FramesAreTheFile ==
  \A c \in Calls :
    /\ pos[c] <= Len(file[c])
    /\ Concat(sent[c]) = SubSeq(file[c], 1, pos[c])
    /\ \A i \in 1..Len(sent[c]) : sent[c][i] # <<>>
    /\ (pc[c] = "awaiting" \/ response[c] # NoResponse) => Concat(sent[c]) = file[c]

\* a two-byte file went out in more than one frame and was answered
C9_Witness ==
  \E c \in Calls :
    /\ Len(file[c]) = 2
    /\ Len(sent[c]) >= 2
    /\ response[c] # NoResponse

(***************************************************************************)
(* C10: in every Uri built, the signature parameter is what sign_request   *)
(* returned for exactly the value of the timestamp parameter.              *)
(***************************************************************************)
C10_SignedTimestampIsSentTimestamp ==
  \A c \in Calls :
    Built(c) =>
      \E e \in signed :
        /\ QueryParam(uri[c], P_TIMESTAMP) = to_string(e.timestamp)
        /\ QueryParam(uri[c], P_SIGNATURE) = e.signature

\* two calls built their endpoints at different clock readings
C10_Witness ==
  /\ Built(1)
  /\ Built(2)
  /\ QueryParam(uri[1], P_TIMESTAMP) = to_string(1700000000)
  /\ QueryParam(uri[2], P_TIMESTAMP) = to_string(1700000001)

====
